---- MODULE Spec2Model ----
(***************************************************************************)
(* Timeline composition and segment scheduling of the tarot video          *)
(* generator: AudioSegmentation (segment parser), MetaVideoManager         *)
(* (compositor and timing resolution), VideoGenerator.processAllSegments / *)
(* concatenateVideos and SyncAPI.generateBatch (scheduler), SyncAPI        *)
(* waitForCompletion (polling) and CharacterMatcher (asset resolver).      *)
(*                                                                         *)
(* JavaScript values that the code computes with are kept as tagged        *)
(* records so that `undefined` and NaN behave as they do in the program:   *)
(* arithmetic on undefined yields NaN, every ordering comparison with      *)
(* undefined or NaN is false.                                              *)
(***************************************************************************)
EXTENDS Integers, Sequences, FiniteSets, TLC

VARIABLES
    pc,          \* position of the modelled call
    input,       \* segmentationData handed to the AudioSegmentation constructor
    segments,    \* AudioSegmentation.segments
    parseError,  \* error thrown by parseSegmentation ("none" when it returned)
    validation,  \* result of AudioSegmentation.validate()
    metaVideos,  \* the processed placements array handed to applyMetaVideos
    timeline,    \* the timeline array applyMetaVideos builds and returns
    metaIndex,   \* position of applyMetaVideos' loop over the sorted placements
    now,         \* last reading of Date.now()
    lastStep,    \* the placement applied last and the timeline it was applied to
    options,     \* the options generateVideo was called with
    preprocessed,\* generateLipSyncVideos: state of each sync segment's preprocessing
    batchStart,  \* generateBatch: the loop variable i
    generation,  \* generateBatch: state of each sync segment's generateLipSync call
    results,     \* generateBatch: results
    errors,      \* generateBatch: errors
    cutaway,     \* processCutawaySegments: loop position, successful and errors
    allResults,  \* what processAllSegments returns
    sortedVideos,\* concatenateVideos: the clips in the order handed to concatenation
    thrown,      \* the error that ended the run ("none" while there is none)
    finalVideo,  \* what concatenateVideos returns
    directory,   \* CharacterMatcher: the file names readdir returned and the scan's position
    characterMap,\* CharacterMatcher.characterMap, entries in insertion order
    lookup,      \* the last findCharacter call: argument, normalized name, result
    canon,       \* a string and what the canonicalizations make of it
    timingCall,  \* the last processTiming call: arguments, window, result
    poll,        \* SyncAPI.waitForCompletion: its loop and the polls it issued
    staging,     \* the uploads of generateLipSync, SyncAPI.uploadedFiles and the run's end
    resolution,  \* a call of processMetaVideoDefinitions: definitions and result
    metaCommand  \* the meta command of the cli: the placement it extracts and trims

vars == <<pc, input, segments, parseError, validation,
          metaVideos, timeline, metaIndex, now, lastStep,
          options, preprocessed, batchStart, generation, results, errors,
          cutaway, allResults, sortedVideos, thrown, finalVideo,
          directory, characterMap, lookup, canon, timingCall, poll,
          staging, resolution, metaCommand>>

processVars == <<options, preprocessed, batchStart, generation, results, errors,
                 cutaway, allResults, sortedVideos, thrown, finalVideo>>

matcherVars == <<directory, characterMap, lookup, canon>>
auxVars == <<staging, resolution, metaCommand>>
componentVars == <<matcherVars, timingCall, poll, auxVars>>

parseVars == <<input, segments, parseError, validation>>
composeVars == <<metaVideos, timeline, metaIndex, now, lastStep>>

-----------------------------------------------------------------------------
(* Bounds of the model *)

MaxParseSegs == 2
MaxTime == 2
MaxDur == 2
MaxBaseSegs == 2
MaxMetas == 2
MaxClock == 1
MaxSchedSegs == 2
MaxSchedMetas == 1
MaxBatch == 2
MaxNameLen == 4
MaxFiles == 2
MaxTimingValue == 2
MaxTotalDuration == 2
MaxAttempts == 3
MaxStageSegs == 2
MaxDefs == 2
MaxRepeats == 2
MaxSourceLength == 2

-----------------------------------------------------------------------------
(* JavaScript numbers, undefined and NaN *)

Num(n) == [t |-> "num", v |-> n]
Undef == [t |-> "undefined", v |-> 0]
NaN == [t |-> "NaN", v |-> 0]
IsNum(x) == x.t = "num"

JsAdd(a, b) == IF IsNum(a) /\ IsNum(b) THEN Num(a.v + b.v) ELSE NaN
JsSub(a, b) == IF IsNum(a) /\ IsNum(b) THEN Num(a.v - b.v) ELSE NaN
JsLt(a, b) == IsNum(a) /\ IsNum(b) /\ a.v < b.v
JsLe(a, b) == IsNum(a) /\ IsNum(b) /\ a.v <= b.v
JsGe(a, b) == IsNum(a) /\ IsNum(b) /\ a.v >= b.v
JsGt(a, b) == IsNum(a) /\ IsNum(b) /\ a.v > b.v

\* a || b on numbers: undefined, NaN and 0 are falsy
JsOr(a, b) == IF IsNum(a) /\ a.v # 0 THEN a ELSE b

-----------------------------------------------------------------------------
(* Segment records.  A parser segment carries startTime/endTime and has no *)
(* start/end property (reading it yields undefined); a compositor segment  *)
(* carries start/end and has no startTime/endTime/speaker.                 *)

SegmentId(index) == [prefix |-> "segment", name |-> "", n |-> index]

NoName == "undefined"

-----------------------------------------------------------------------------
(* AudioSegmentation: parseSegmentation and the three formats *)

\* segments[index - 1].end of the raw list, or 0 for the first entry
MutPrevEnd(items, i) == IF i > 1 THEN items[i - 1].start ELSE Num(0)
PrevEnd(items, i) == IF i > 1 THEN items[i - 1].end ELSE Num(0)

TimestampSegment(items, i) ==
    LET segment == items[i]
        startTime == IF segment.start # Undef THEN segment.start ELSE PrevEnd(items, i)
    IN  [ id |-> SegmentId(i - 1),
          speaker |-> segment.speaker,
          video |-> segment.speaker,
          startTime |-> startTime,
          endTime |-> segment.end,
          duration |-> JsSub(segment.end, startTime),
          sync |-> IF segment.sync # "undefined" THEN segment.sync ELSE "true",
          type |-> IF segment.sync = "false" THEN "cutaway" ELSE "dialogue",
          start |-> Undef,
          end |-> Undef ]

parseTimestampFormat(items) ==
    [i \in 1..Len(items) |-> TimestampSegment(items, i)]

\* data.durations[index] || 1.0
SequenceDuration(d) == JsOr(d, Num(1))

RECURSIVE SequenceStart(_, _)
SequenceStart(data, i) ==
    IF i = 1 THEN Num(0)
    ELSE JsAdd(SequenceStart(data, i - 1), SequenceDuration(data.durations[i - 1]))

SequenceSegment(data, i) ==
    LET duration == SequenceDuration(data.durations[i])
        currentTime == SequenceStart(data, i)
    IN  [ id |-> SegmentId(i - 1),
          speaker |-> data.items[i].speaker,
          video |-> data.items[i].speaker,
          startTime |-> currentTime,
          endTime |-> JsAdd(currentTime, duration),
          duration |-> duration,
          sync |-> IF data.hasSync THEN data.items[i].sync ELSE "true",
          type |-> IF data.hasSync /\ data.items[i].sync = "false"
                   THEN "cutaway" ELSE "dialogue",
          start |-> Undef,
          end |-> Undef ]

parseSequenceFormat(data) ==
    [i \in 1..Len(data.items) |-> SequenceSegment(data, i)]

DiarizationSegment(items, i) ==
    [ id |-> SegmentId(i - 1),
      speaker |-> items[i].speaker,
      video |-> NoName,
      startTime |-> items[i].start,
      endTime |-> items[i].end,
      duration |-> JsSub(items[i].end, items[i].start),
      sync |-> "undefined",
      type |-> "undefined",
      start |-> Undef,
      end |-> Undef ]

parseDiarizationFormat(data) ==
    [i \in 1..Len(data.items) |-> DiarizationSegment(data.items, i)]

\* The thrown error of parseSegmentation, "none" when it returns
ParseSegmentationError(data) ==
    CASE data.kind \in {"array", "sequence", "diarization"} -> "none"
      [] data.kind = "nullish" -> "TypeError"
      [] OTHER -> "Unsupported segmentation format"

parseSegmentation(data) ==
    CASE data.kind = "array" -> parseTimestampFormat(data.items)
      [] data.kind = "sequence" -> parseSequenceFormat(data)
      [] data.kind = "diarization" -> parseDiarizationFormat(data)
      [] OTHER -> << >>

-----------------------------------------------------------------------------
(* AudioSegmentation.validate *)

SegmentErrors(segs, i) ==
    LET segment == segs[i]
    IN  (IF JsLt(segment.startTime, Num(0))
            THEN << <<segment.id, "Start time cannot be negative">> >> ELSE << >>)
        \o (IF JsLe(segment.endTime, segment.startTime)
            THEN << <<segment.id, "End time must be after start time">> >> ELSE << >>)
        \o (IF i > 1 /\ JsLt(segment.startTime, segs[i - 1].endTime)
            THEN << <<segment.id, "Overlaps with previous segment">> >> ELSE << >>)

RECURSIVE ValidateFrom(_, _)
ValidateFrom(segs, i) ==
    IF i > Len(segs) THEN << >>
    ELSE SegmentErrors(segs, i) \o ValidateFrom(segs, i + 1)

MutValidateErrors(segs) ==
    LET all == ValidateFrom(segs, 1) IN IF all = << >> THEN all ELSE << all[1] >>
ValidateErrors(segs) == ValidateFrom(segs, 1)

validate(segs) ==
    LET errs == ValidateErrors(segs)
    IN  [isValid |-> Len(errs) = 0, errors |-> errs]

-----------------------------------------------------------------------------
(* Scripts the parser is given *)

Speakers == {"A"}
StartValues == {Undef} \cup {Num(n) : n \in -1..MaxTime}
EndValues == {Num(n) : n \in 0..MaxTime}
DurationValues == {Undef} \cup {Num(n) : n \in 0..MaxDur}
SyncValues == {"undefined", "true", "false"}

SeqsUpTo(S, n) == UNION {[1..k -> S] : k \in 0..n}

RawItem(speaker, start, end, sync) ==
    [speaker |-> speaker, start |-> start, end |-> end, sync |-> sync]

ArrayItems == {RawItem(sp, s, e, "undefined") : sp \in Speakers, s \in StartValues, e \in EndValues}
SequenceItems == {RawItem(sp, Undef, Undef, "undefined") : sp \in Speakers}
DiarizationItems ==
    {RawItem(sp, s, e, "undefined") : sp \in Speakers, s \in EndValues, e \in EndValues}

Script(kind, items, durations, hasSync) ==
    [kind |-> kind, items |-> items, durations |-> durations, hasSync |-> hasSync]

ArrayScripts == {Script("array", it, << >>, FALSE) : it \in SeqsUpTo(ArrayItems, MaxParseSegs)}
SequenceScripts ==
    UNION { {Script("sequence", it, d, FALSE) : d \in [1..Len(it) -> DurationValues]}
            : it \in SeqsUpTo(SequenceItems, MaxParseSegs) }
DiarizationScripts ==
    {Script("diarization", it, << >>, FALSE) : it \in SeqsUpTo(DiarizationItems, 1)}
\* an object of another type, a number or string, and null or undefined
OtherScripts == {Script(k, << >>, << >>, FALSE) : k \in {"object", "primitive", "nullish"}}

ParseInputs == ArrayScripts \cup SequenceScripts \cup DiarizationScripts \cup OtherScripts

NoValidation == [isValid |-> TRUE, errors |-> << >>]

-----------------------------------------------------------------------------
(* State of a run of processAllSegments before it is called *)

NoResults == [successful |-> << >>, errors |-> << >>]

\* concatenateVideos has not returned
NoFinalVideo == [segmentCount |-> 0, failedCount |-> 0, errors |-> << >>]

\* The components that a run does not call stay as constructed
NoLookup == [called |-> FALSE, name |-> << >>, normalizedName |-> << >>, found |-> << >>]
NoDirectory == [files |-> << >>, next |-> 1]
NoCanon == [kind |-> "none", input |-> << >>, once |-> << >>, twice |-> << >>]
NoTimingCall ==
    [ called |-> FALSE,
      timing |-> [start |-> Undef, end |-> Undef, duration |-> Undef, fromEnd |-> Undef,
                  beforeEnd |-> Undef, offset |-> Undef],
      totalDuration |-> 0,
      window |-> [start |-> Undef, end |-> Undef],
      result |-> << >> ]
NoPoll ==
    [called |-> FALSE, maxAttempts |-> 0, attempt |-> 0, history |-> << >>, waits |-> << >>,
     error |-> "none"]

NoStaging ==
    [ called |-> FALSE, cleanupOption |-> TRUE, count |-> 0, next |-> 1, uploads |-> << >>,
      uploadedFiles |-> {}, staged |-> {}, handed |-> {}, succeeded |-> 0 ]
NoResolution ==
    [called |-> FALSE, definitions |-> << >>, totalDuration |-> 0, next |-> 1,
     processedMetas |-> << >>]
NoMetaCommand == [called |-> FALSE, sourceLength |-> 0, next |-> 1, extractions |-> << >>]

AuxIdle ==
    /\ staging = NoStaging
    /\ resolution = NoResolution
    /\ metaCommand = NoMetaCommand

ComponentsIdle ==
    /\ directory = NoDirectory
    /\ characterMap = << >>
    /\ lookup = NoLookup
    /\ canon = NoCanon
    /\ timingCall = NoTimingCall
    /\ poll = NoPoll
    /\ AuxIdle

ProcessIdle ==
    /\ options = [batchSize |-> Undef]
    /\ preprocessed = << >>
    /\ batchStart = 0
    /\ generation = << >>
    /\ results = << >>
    /\ errors = << >>
    /\ cutaway = [next |-> 1, successful |-> << >>, errors |-> << >>]
    /\ allResults = NoResults
    /\ sortedVideos = << >>
    /\ thrown = "none"
    /\ finalVideo = NoFinalVideo

-----------------------------------------------------------------------------
(* MetaVideoManager: the compositor *)

\* Array.prototype.sort with the comparator (a, b) => key(a) - key(b).  With
\* numeric keys the comparator is consistent and the sort is stable; a key
\* that is undefined or NaN makes the comparator inconsistent and the order
\* implementation-defined: any permutation may result.
RECURSIVE InsertByKey(_, _, _)
InsertByKey(sorted, x, kx) ==
    IF sorted = << >> THEN << <<x, kx>> >>
    ELSE IF Head(sorted)[2] <= kx
         THEN << Head(sorted) >> \o InsertByKey(Tail(sorted), x, kx)
         ELSE << <<x, kx>> >> \o sorted

RECURSIVE StableSortPairs(_, _, _)
StableSortPairs(arr, keys, i) ==
    IF i = 0 THEN << >>
    ELSE InsertByKey(StableSortPairs(arr, keys, i - 1), arr[i], keys[i].v)

\* a sort that orders the keys and reverses the elements of equal key
MutStableSort(arr, keys) ==
    LET n == Len(arr)
        pairs == StableSortPairs([i \in 1..n |-> arr[n + 1 - i]],
                                 [i \in 1..n |-> keys[n + 1 - i]], n)
    IN  [i \in 1..n |-> pairs[i][1]]

StableSort(arr, keys) ==
    LET pairs == StableSortPairs(arr, keys, Len(arr))
    IN  [i \in 1..Len(arr) |-> pairs[i][1]]

ArrayPermutations(arr) ==
    { [i \in 1..Len(arr) |-> arr[f[i]]] :
        f \in {g \in [1..Len(arr) -> 1..Len(arr)] :
                  \A a, b \in 1..Len(arr) : a # b => g[a] # g[b]} }

JsSortResults(arr, keys) ==
    IF \A i \in 1..Len(arr) : IsNum(keys[i])
    THEN {StableSort(arr, keys)}
    ELSE ArrayPermutations(arr)

MetaId(prefix, name, clock) == [prefix |-> prefix, name |-> name, n |-> clock]

ReplacePrefix(category) ==
    CASE category = "intros" -> "meta_intros"
      [] category = "outros" -> "meta_outros"
      [] category = "cutaways" -> "meta_cutaways"
      [] OTHER -> "meta_overlays"

MetaSegment(id, type, meta, start, end) ==
    [ id |-> id,
      speaker |-> NoName,
      video |-> meta.name,
      startTime |-> Undef,
      endTime |-> Undef,
      duration |-> Num(meta.timing.duration),
      sync |-> "false",
      type |-> type,
      start |-> Num(start),
      end |-> Num(end) ]

\* the filter of replaceSegments: the segments that stay
KeptByReplace(tl, meta) ==
    SelectSeq(tl, LAMBDA segment :
        \/ JsLe(segment.end, Num(meta.timing.start))
        \/ JsGe(segment.start, Num(meta.timing.end)))

\* the possible contents of timeline after replaceSegments(timeline, meta)
replaceSegments(tl, meta, clock) ==
    LET metaSegment == MetaSegment(MetaId(ReplacePrefix(meta.category), meta.name, clock),
                                   "meta", meta, meta.timing.start, meta.timing.end)
        filteredTimeline == Append(KeptByReplace(tl, meta), metaSegment)
    IN  JsSortResults(filteredTimeline,
                      [i \in 1..Len(filteredTimeline) |-> filteredTimeline[i].start])

addOverlay(tl, meta, clock) ==
    Append(tl, MetaSegment(MetaId("overlay", meta.name, clock), "overlay", meta,
                           meta.timing.start, meta.timing.end))

\* segment.start += shiftAmount; segment.end += shiftAmount
ShiftSegment(segment, shiftAmount) ==
    [segment EXCEPT !.start = JsAdd(@, Num(shiftAmount)),
                    !.end = JsAdd(@, Num(shiftAmount))]

insertBefore(tl, meta, clock) ==
    << MetaSegment(MetaId("intro", meta.name, clock), "meta", meta, 0, meta.timing.duration) >>
    \o [i \in 1..Len(tl) |-> ShiftSegment(tl[i], meta.timing.duration)]

insertAfter(tl, meta, clock) ==
    Append(tl, MetaSegment(MetaId("outro", meta.name, clock), "meta", meta,
                           meta.timing.start, meta.timing.end))

\* insertBefore changes the segment objects themselves, and the caller's
\* segments array holds the same objects as the timeline copy
ShiftShared(callerSegs, tl, shiftAmount) ==
    [i \in 1..Len(callerSegs) |->
        IF \E j \in 1..Len(tl) : tl[j].id = callerSegs[i].id
        THEN ShiftSegment(callerSegs[i], shiftAmount)
        ELSE callerSegs[i]]

-----------------------------------------------------------------------------
(* Timelines and placements the compositor is given *)

\* explicit lists without start: each segment begins where the last ended
RECURSIVE Increasing(_)
Increasing(ends) == Len(ends) <= 1 \/ (ends[1].v < ends[2].v /\ Increasing(Tail(ends)))

BaseScripts ==
    { Script("array", [i \in 1..Len(ends) |-> RawItem("A", Undef, ends[i], "undefined")],
             << >>, FALSE) :
        ends \in {e \in SeqsUpTo({Num(n) : n \in 1..MaxTime}, MaxBaseSegs) :
                    Len(e) >= 1 /\ Increasing(e)} }

\* Math.max(...segments.map(s => s.endTime))
TotalDuration(segs) ==
    CHOOSE m \in {segs[i].endTime.v : i \in 1..Len(segs)} :
        \A i \in 1..Len(segs) : segs[i].endTime.v <= m

TimingTolerance == 10

\* the check processTiming makes before it returns a window
TimingValid(start, end, totalDuration) ==
    ~(start < 0 \/ end <= start \/ end > totalDuration + TimingTolerance)

Positions == {"replace", "overlay", "before", "after"}

Placement(category, name, start, end, position) ==
    [ category |-> category,
      name |-> name,
      timing |-> [start |-> start, end |-> end, duration |-> end - start],
      position |-> position ]

Placements(totalDuration) ==
    { m \in {Placement("outros", "m", s, e, p) :
                s \in 0..MaxTime, e \in 0..MaxTime, p \in Positions} :
        TimingValid(m.timing.start, m.timing.end, totalDuration) }

NoStep == [position |-> "none", meta |-> Placement("", "", 0, 0, "none"), before |-> << >>]

-----------------------------------------------------------------------------
(* applyMetaVideos(segments, metaVideos, totalDuration) *)

InitCompose ==
    /\ pc = "apply"
    /\ input \in BaseScripts
    /\ segments = parseSegmentation(input)
    /\ parseError = "none"
    /\ validation = NoValidation
    /\ metaVideos \in SeqsUpTo(Placements(TotalDuration(parseSegmentation(input))), MaxMetas)
    /\ timeline = << >>
    /\ metaIndex = 0
    /\ now = 0
    /\ lastStep = NoStep
    /\ ProcessIdle
    /\ ComponentsIdle

\* timeline = [...segments]; metaVideos.sort(...) sorts the caller's array
ApplyBegin ==
    /\ pc = "apply"
    /\ timeline' = segments
    /\ metaVideos' \in JsSortResults(metaVideos,
                          [i \in 1..Len(metaVideos) |-> Num(metaVideos[i].timing.start)])
    /\ metaIndex' = 1
    /\ pc' = "loop"
    /\ UNCHANGED <<componentVars, parseVars, now, lastStep, processVars>>

Placing(position) ==
    /\ pc = "loop"
    /\ metaIndex <= Len(metaVideos)
    /\ metaVideos[metaIndex].position = position
    /\ now' \in {t \in {now, now + 1} : t <= MaxClock}
    /\ lastStep' = [position |-> position, meta |-> metaVideos[metaIndex], before |-> timeline]
    /\ metaIndex' = metaIndex + 1
    /\ UNCHANGED <<componentVars, pc, input, parseError, validation, metaVideos, processVars>>

PlaceReplace ==
    /\ Placing("replace")
    /\ timeline' \in replaceSegments(timeline, metaVideos[metaIndex], now')
    /\ UNCHANGED segments

PlaceOverlay ==
    /\ Placing("overlay")
    /\ timeline' = addOverlay(timeline, metaVideos[metaIndex], now')
    /\ UNCHANGED segments

PlaceBefore ==
    /\ Placing("before")
    /\ timeline' = insertBefore(timeline, metaVideos[metaIndex], now')
    /\ segments' = ShiftShared(segments, timeline, metaVideos[metaIndex].timing.duration)

PlaceAfter ==
    /\ Placing("after")
    /\ timeline' = insertAfter(timeline, metaVideos[metaIndex], now')
    /\ UNCHANGED segments

ApplyReturn ==
    /\ pc = "loop"
    /\ metaIndex > Len(metaVideos)
    /\ pc' = "composed"
    /\ UNCHANGED <<componentVars, parseVars, composeVars, processVars>>

NextCompose ==
    \/ ApplyBegin
    \/ PlaceReplace
    \/ PlaceOverlay
    \/ PlaceBefore
    \/ PlaceAfter
    \/ ApplyReturn

SpecCompose == InitCompose /\ [][NextCompose]_vars

-----------------------------------------------------------------------------
(* new AudioSegmentation(audioFile, data) followed by validate() *)

InitParse ==
    /\ pc = "construct"
    /\ input \in ParseInputs
    /\ segments = << >>
    /\ parseError = "none"
    /\ validation = NoValidation
    /\ metaVideos = << >>
    /\ timeline = << >>
    /\ metaIndex = 0
    /\ now = 0
    /\ lastStep = NoStep
    /\ ProcessIdle
    /\ ComponentsIdle

Construct ==
    /\ pc = "construct"
    /\ parseError' = ParseSegmentationError(input)
    /\ segments' = parseSegmentation(input)
    /\ pc' = IF ParseSegmentationError(input) = "none" THEN "parsed" ELSE "threw"
    /\ UNCHANGED <<componentVars, input, validation, composeVars, processVars>>

Validate ==
    /\ pc = "parsed"
    /\ validation' = validate(segments)
    /\ pc' = "validated"
    /\ UNCHANGED <<componentVars, input, segments, parseError, composeVars, processVars>>

NextParse == Construct \/ Validate

SpecParse == InitParse /\ [][NextParse]_vars

-----------------------------------------------------------------------------
(* VideoGenerator.processAllSegments, generateLipSyncVideos,               *)
(* SyncAPI.generateBatch, processCutawaySegments and concatenateVideos     *)

\* segments.filter(segment => segment.sync === true) and (... === false)
syncSegments(tl) == SelectSeq(tl, LAMBDA segment : segment.sync = "true")
noSyncSegments(tl) == SelectSeq(tl, LAMBDA segment : segment.sync = "false")

\* options.batchSize || 1
BatchSize(opts) == JsOr(opts.batchSize, Num(1)).v

\* The entry a lane pushes for a produced clip.  origin is the position of
\* the segment in the timeline; the program does not have it and nothing
\* the model computes for the program reads it.
ResultOf(segment, tl) ==
    [ segmentId |-> segment.id,
      speaker |-> segment.speaker,
      duration |-> segment.duration,
      startTime |-> segment.startTime,
      endTime |-> segment.endTime,
      origin |-> CHOOSE i \in 1..Len(tl) : tl[i] = segment ]

ErrorOf(segment) == [segmentId |-> segment.id, speaker |-> segment.speaker]

\* segments.findIndex(s => s.id === id): 0-based, -1 when there is none
FindIndex(tl, id) ==
    IF \E i \in 1..Len(tl) : tl[i].id = id
    THEN (CHOOSE i \in 1..Len(tl) :
            tl[i].id = id /\ \A j \in 1..(i - 1) : tl[j].id # id) - 1
    ELSE -1

\* allResults.successful.sort by findIndex of the segment id
SortByOriginalOrder(successful, tl) ==
    JsSortResults(successful,
                  [i \in 1..Len(successful) |-> Num(FindIndex(tl, successful[i].segmentId))])

\* successful.sort((a, b) => a.startTime - b.startTime)
SortByStartTime(successful) ==
    JsSortResults(successful, [i \in 1..Len(successful) |-> successful[i].startTime])

Outcomes == {"ok", "fails"}

\* processAllSegments is entered; the sync lane starts by preprocessing every
\* character video at once (Promise.all over segments.map)
ProcessBegin ==
    /\ pc = "composed"
    /\ preprocessed' = [k \in 1..Len(syncSegments(timeline)) |-> "pending"]
    /\ generation' = [k \in 1..Len(syncSegments(timeline)) |-> "idle"]
    /\ pc' = IF Len(syncSegments(timeline)) > 0 THEN "preprocess" ELSE "cutaways"
    /\ UNCHANGED <<componentVars, finalVideo, parseVars, composeVars, options, batchStart, results, errors,
                   cutaway, allResults, sortedVideos, thrown>>

\* one preprocessing settles; a rejection rejects Promise.all, and
\* generateLipSyncVideos and processAllSegments throw
PreprocessSettle(k, outcome) ==
    /\ pc = "preprocess"
    /\ preprocessed[k] = "pending"
    /\ preprocessed' = [preprocessed EXCEPT ![k] = IF outcome = "ok" THEN "done" ELSE "failed"]
    /\ IF outcome = "fails"
       THEN pc' = "thrown" /\ thrown' = "Video file not found"
       ELSE /\ pc' = IF \A j \in DOMAIN preprocessed : j # k => preprocessed[j] = "done"
                     THEN "batch" ELSE "preprocess"
            /\ UNCHANGED thrown
    /\ UNCHANGED <<componentVars, finalVideo, parseVars, composeVars, options, batchStart, generation, results,
                   errors, cutaway, allResults, sortedVideos>>

\* segments.slice(i, i + batchSize); MutBatch is a slice that takes one
\* segment more than the batch size
MutBatch == {k \in DOMAIN generation :
               batchStart < k /\ k <= batchStart + BatchSize(options) + 1}
Batch == {k \in DOMAIN generation :
            batchStart < k /\ k <= batchStart + BatchSize(options)}

\* batch.map(async segment => ...) starts every generateLipSync of the batch
BatchBegin ==
    /\ pc = "batch"
    /\ generation' = [k \in DOMAIN generation |->
                        IF k \in Batch THEN "running" ELSE generation[k]]
    /\ pc' = "inflight"
    /\ UNCHANGED <<componentVars, finalVideo, parseVars, composeVars, options, preprocessed, batchStart, results,
                   errors, cutaway, allResults, sortedVideos, thrown>>

\* one generateLipSync settles; a failure is caught and pushed to errors
GenerationSettle(k, outcome) ==
    /\ pc = "inflight"
    /\ generation[k] = "running"
    /\ generation' = [generation EXCEPT ![k] = IF outcome = "ok" THEN "fulfilled" ELSE "caught"]
    /\ errors' = IF outcome = "ok" THEN errors
                 ELSE Append(errors, ErrorOf(syncSegments(timeline)[k]))
    /\ UNCHANGED <<componentVars, finalVideo, pc, parseVars, composeVars, options, preprocessed, batchStart, results,
                   cutaway, allResults, sortedVideos, thrown>>

\* Promise.allSettled resolves; the fulfilled values are pushed in batch order
BatchCollect ==
    /\ pc = "inflight"
    /\ \A k \in Batch : generation[k] \in {"fulfilled", "caught"}
    /\ LET fulfilled == SelectSeq([j \in 1..Cardinality(Batch) |-> batchStart + j],
                                  LAMBDA k : generation[k] = "fulfilled")
       IN  results' = results \o
              [j \in 1..Len(fulfilled) |->
                  ResultOf(syncSegments(timeline)[fulfilled[j]], timeline)]
    /\ batchStart' = batchStart + BatchSize(options)
    /\ pc' = IF batchStart' < Len(syncSegments(timeline)) THEN "batch" ELSE "cutaways"
    /\ UNCHANGED <<componentVars, finalVideo, parseVars, composeVars, options, preprocessed, generation, errors,
                   cutaway, allResults, sortedVideos, thrown>>

\* one pass of the loop of processCutawaySegments: the clip is found and
\* trimmed, or findCharacter finds nothing or trimVideo throws
CutawayStep(outcome) ==
    /\ pc = "cutaways"
    /\ cutaway.next <= Len(noSyncSegments(timeline))
    /\ LET segment == noSyncSegments(timeline)[cutaway.next]
       IN  cutaway' =
             IF outcome = "ok"
             THEN [cutaway EXCEPT !.next = @ + 1,
                                  !.successful = Append(@, ResultOf(segment, timeline))]
             ELSE [cutaway EXCEPT !.next = @ + 1,
                                  !.errors = Append(@, ErrorOf(segment))]
    /\ UNCHANGED <<componentVars, finalVideo, pc, parseVars, composeVars, options, preprocessed, batchStart,
                   generation, results, errors, allResults, sortedVideos, thrown>>

\* the lanes' results are combined and sorted by original segment order
ProcessReturn ==
    /\ pc = "cutaways"
    /\ cutaway.next > Len(noSyncSegments(timeline))
    /\ \E sorted \in SortByOriginalOrder(results \o cutaway.successful, timeline) :
          allResults' = [successful |-> sorted, errors |-> errors \o cutaway.errors]
    /\ pc' = "processed"
    /\ UNCHANGED <<componentVars, finalVideo, parseVars, composeVars, options, preprocessed, batchStart, generation,
                   results, errors, cutaway, sortedVideos, thrown>>

\* concatenateVideos with nothing to concatenate
ConcatenateNothing ==
    /\ pc = "processed"
    /\ Len(allResults.successful) = 0
    /\ pc' = "thrown"
    /\ thrown' = "No videos were successfully generated"
    /\ UNCHANGED <<componentVars, finalVideo, parseVars, composeVars, options, preprocessed, batchStart, generation,
                   results, errors, cutaway, allResults, sortedVideos>>

\* concatenateVideos sorts successful in place by startTime, concatenates and
\* returns the counts and the errors (null, here the empty list, when there
\* are none)
Concatenate ==
    /\ pc = "processed"
    /\ Len(allResults.successful) > 0
    /\ sortedVideos' \in SortByStartTime(allResults.successful)
    /\ allResults' = [allResults EXCEPT !.successful = sortedVideos']
    /\ finalVideo' = [ segmentCount |-> Len(allResults.successful),
                       failedCount |-> Len(allResults.errors),
                       errors |-> allResults.errors ]
    /\ pc' = "concatenated"
    /\ UNCHANGED <<componentVars, parseVars, composeVars, options, preprocessed, batchStart, generation,
                   results, errors, cutaway, thrown>>

NextProcess ==
    \/ ProcessBegin
    \/ \E k \in DOMAIN preprocessed, outcome \in Outcomes : PreprocessSettle(k, outcome)
    \/ BatchBegin
    \/ \E k \in DOMAIN generation, outcome \in Outcomes : GenerationSettle(k, outcome)
    \/ BatchCollect
    \/ \E outcome \in Outcomes : CutawayStep(outcome)
    \/ ProcessReturn
    \/ ConcatenateNothing
    \/ Concatenate

-----------------------------------------------------------------------------
(* Runs of generateVideo from the parsed script on: compose, process,      *)
(* concatenate                                                             *)

SchedItems == {RawItem("A", Undef, Undef, sy) : sy \in {"true", "false"}}

\* explicit lists of unit-length segments, chained or given back to front
ChainedScript(items) ==
    Script("array", [i \in 1..Len(items) |->
                        [items[i] EXCEPT !.end = Num(i)]], << >>, FALSE)
ReversedScript(items) ==
    Script("array", [i \in 1..Len(items) |->
                        [items[i] EXCEPT !.start = Num(Len(items) - i),
                                         !.end = Num(Len(items) - i + 1)]], << >>, FALSE)

SchedScripts ==
    {ChainedScript(it) : it \in SeqsUpTo(SchedItems, MaxSchedSegs) \ {<< >>}}
    \cup {ReversedScript(it) : it \in SeqsUpTo(SchedItems, MaxSchedSegs) \ {<< >>}}
    \cup {Script("sequence", it, [i \in 1..Len(it) |-> Num(1)], TRUE) :
             it \in [1..1 -> {RawItem("A", Undef, Undef, sy) : sy \in SyncValues}]}
    \cup {Script("diarization", << RawItem("A", Num(0), Num(1), "undefined") >>, << >>, FALSE)}

\* placements over the first second of the timeline, in every position
SchedPlacements(totalDuration) ==
    {m \in Placements(totalDuration) : m.timing.start = 0 /\ m.timing.end = 1}

InitSchedule ==
    /\ pc = "apply"
    /\ input \in SchedScripts
    /\ segments = parseSegmentation(input)
    /\ parseError = "none"
    /\ validation = NoValidation
    /\ metaVideos \in SeqsUpTo(SchedPlacements(TotalDuration(parseSegmentation(input))),
                               MaxSchedMetas)
    /\ timeline = << >>
    /\ metaIndex = 0
    /\ now = 0
    /\ lastStep = NoStep
    /\ options \in [batchSize : {Undef} \cup {Num(n) : n \in 1..MaxBatch}]
    /\ preprocessed = << >>
    /\ batchStart = 0
    /\ generation = << >>
    /\ results = << >>
    /\ errors = << >>
    /\ cutaway = [next |-> 1, successful |-> << >>, errors |-> << >>]
    /\ allResults = NoResults
    /\ sortedVideos = << >>
    /\ thrown = "none"
    /\ finalVideo = NoFinalVideo
    /\ ComponentsIdle

NextSchedule == NextCompose \/ NextProcess

SpecSchedule == InitSchedule /\ [][NextSchedule]_vars

-----------------------------------------------------------------------------
(* Properties of the segment parser *)

Parsed == pc \in {"parsed", "validated"}

\* C7: in an explicit-list script, a segment whose start is omitted gets a
\* startTime equal to the previous segment's end time (0 for the first
\* segment), and its duration is its end minus that start.
C7_OmittedStartChains ==
    (Parsed /\ input.kind = "array") =>
        \A i \in 1..Len(input.items) :
            input.items[i].start = Undef =>
                LET expected == IF i = 1 THEN Num(0) ELSE segments[i - 1].endTime
                IN  /\ segments[i].startTime = expected
                    /\ segments[i].duration = Num(input.items[i].end.v - expected.v)

C7_Witness ==
    /\ Parsed /\ input.kind = "array" /\ Len(input.items) = 2
    /\ input.items[1].start # Undef
    /\ input.items[2].start = Undef
    /\ segments[2].startTime = Num(1)
    /\ segments[2].duration = Num(1)

\* C8: in a sequence script, segment i has id segment_i, starts where
\* segment i-1 ended (0 for the first), lasts durations[i] when that entry is
\* present and 1.0 only when it is missing.
C8_SequenceDurations ==
    (Parsed /\ input.kind = "sequence") =>
        \A i \in 1..Len(input.items) :
            /\ segments[i].id = [prefix |-> "segment", name |-> "", n |-> i - 1]
            /\ segments[i].startTime = (IF i = 1 THEN Num(0) ELSE segments[i - 1].endTime)
            /\ segments[i].duration =
                  (IF input.durations[i] = Undef THEN Num(1) ELSE input.durations[i])
            /\ segments[i].endTime = Num(segments[i].startTime.v + segments[i].duration.v)

\* The violations of a parsed list, stated on the numbers themselves
NegativeStarts == {i \in 1..Len(segments) : segments[i].startTime.v < 0}
EmptySpans == {i \in 1..Len(segments) : segments[i].endTime.v <= segments[i].startTime.v}
Overlaps ==
    {i \in 2..Len(segments) : segments[i].startTime.v < segments[i - 1].endTime.v}

\* C9 (as stated): validate() reports zero violations if and only if every
\* segment ends after it starts and starts no earlier than its predecessor
\* ends.
C9_ValidIffOrdered ==
    pc = "validated" =>
        (validation.isValid <=> (EmptySpans = {} /\ Overlaps = {}))

\* C9 (amended): validate() reports zero violations if and only if every
\* segment has a non-negative start, ends after it starts and starts no
\* earlier than its predecessor ends; and it reports every violation of the
\* list, one entry per violated check per segment.
C9_ValidIffOrderedNonNegative ==
    pc = "validated" =>
        /\ validation.isValid <=>
              (NegativeStarts = {} /\ EmptySpans = {} /\ Overlaps = {})
        /\ validation.isValid <=> (Len(validation.errors) = 0)
        /\ {validation.errors[k] : k \in 1..Len(validation.errors)} =
                 {<<segments[i].id, "Start time cannot be negative">> : i \in NegativeStarts}
            \cup {<<segments[i].id, "End time must be after start time">> : i \in EmptySpans}
            \cup {<<segments[i].id, "Overlaps with previous segment">> : i \in Overlaps}
        /\ Len(validation.errors) =
              Cardinality(NegativeStarts) + Cardinality(EmptySpans) + Cardinality(Overlaps)

C9_Witness ==
    /\ pc = "validated"
    /\ Len(segments) = 2
    /\ NegativeStarts = {1}
    /\ Overlaps = {2}
    /\ EmptySpans = {2}
    /\ Len(validation.errors) = 3

\* C10: parseSegmentation returns segments for an array, for an object of
\* type 'sequence' and for one of type 'diarization'; every other input fails
\* with the unsupported-format error and produces no segments.
C10_UnsupportedFormat ==
    pc # "construct" =>
        IF input.kind \in {"array", "sequence", "diarization"}
        THEN pc \in {"parsed", "validated"} /\ parseError = "none"
        ELSE /\ pc = "threw"
             /\ parseError = "Unsupported segmentation format"
             /\ segments = << >>

-----------------------------------------------------------------------------
(* Properties of the compositor *)

\* The interval a segment occupies: start/end where the segment carries
\* them as numbers, startTime/endTime otherwise
SegStart(segment) == IF IsNum(segment.start) THEN segment.start.v ELSE segment.startTime.v
SegEnd(segment) == IF IsNum(segment.end) THEN segment.end.v ELSE segment.endTime.v

NonOverlay(tl) == {i \in 1..Len(tl) : tl[i].type # "overlay"}

\* C4: the timeline applyMetaVideos returns has no two non-overlay segments
\* that overlap (sorted by start, each ends no later than the next starts;
\* every segment has positive length, so this is pairwise disjointness).
\* applyMetaVideos has no path that raises an error, so the alternative
\* "or an internal-consistency error is raised" never applies.
C4_ComposedNonOverlapping ==
    pc = "composed" =>
        \A i, j \in NonOverlay(timeline) :
            i # j => \/ SegEnd(timeline[i]) <= SegStart(timeline[j])
                     \/ SegEnd(timeline[j]) <= SegStart(timeline[i])

AppliedToParsed(position) ==
    /\ lastStep.position = position
    /\ lastStep.before = parseSegmentation(input)

Elements(tl) == {tl[i] : i \in 1..Len(tl)}

\* C5: a replace placement applied to parser-produced segments removes
\* exactly the segments whose interval intersects the window, keeps every
\* other segment, inserts exactly one meta segment spanning the window and
\* leaves the timeline sorted by start time.
C5_ReplaceRemovesIntersecting ==
    AppliedToParsed("replace") =>
        LET window == lastStep.meta.timing
            Intersects(segment) ==
                segment.endTime.v > window.start /\ segment.startTime.v < window.end
            kept == {segment \in Elements(lastStep.before) : ~Intersects(segment)}
            inserted == {i \in 1..Len(timeline) :
                            /\ timeline[i].type = "meta"
                            /\ timeline[i].start = Num(window.start)
                            /\ timeline[i].end = Num(window.end)}
        IN  /\ Cardinality(inserted) = 1
            /\ {timeline[i] : i \in (1..Len(timeline)) \ inserted} = kept
            /\ Len(timeline) = Cardinality(kept) + 1
            /\ \A i \in 1..(Len(timeline) - 1) :
                  SegStart(timeline[i]) <= SegStart(timeline[i + 1])

\* C6: a before placement of duration d applied to parser-produced segments
\* moves every existing segment's start and end forward by exactly d and puts
\* a new segment [0, d) first.  A moved time is accepted in either pair of
\* properties (startTime/endTime or start/end).
C6_BeforeShiftsByDuration ==
    AppliedToParsed("before") =>
        LET d == lastStep.meta.timing.duration
        IN  /\ Len(timeline) = Len(lastStep.before) + 1
            /\ timeline[1].start = Num(0)
            /\ timeline[1].end = Num(d)
            /\ \A i \in 1..Len(lastStep.before) :
                  LET old == lastStep.before[i]
                      new == timeline[i + 1]
                  IN  /\ new.id = old.id
                      /\ \/ new.startTime = Num(old.startTime.v + d)
                         \/ new.start = Num(old.startTime.v + d)
                      /\ \/ new.endTime = Num(old.endTime.v + d)
                         \/ new.end = Num(old.endTime.v + d)

-----------------------------------------------------------------------------
(* Properties of the scheduler *)

Returned == pc \in {"processed", "concatenated"}
                \/ thrown = "No videos were successfully generated"

Reported(entries) == {entries[i].segmentId : i \in 1..Len(entries)}

\* C1: a single segment's failure in either lane, its preprocessing
\* included, is captured as an entry of errors and does not abort the other
\* segments: processAllSegments never throws because of one segment, and when
\* it returns every segment of the two lanes is in successful or in errors.
C1_SegmentFailureIsCaptured ==
    /\ thrown # "Video file not found"
    /\ Returned =>
          \A i \in 1..Len(timeline) :
              timeline[i].sync \in {"true", "false"} =>
                  timeline[i].id \in Reported(allResults.successful)
                                        \cup Reported(allResults.errors)

\* C2: the clips handed to concatenation are in ascending order of their
\* segments' original start times, whatever the order of completion and
\* whatever the composed timeline.
C2_ClipsInStartOrder ==
    pc = "concatenated" =>
        \A k, l \in 1..Len(sortedVideos) :
            k < l => SegStart(timeline[sortedVideos[k].origin])
                        <= SegStart(timeline[sortedVideos[l].origin])

InLane(lane, segment) == \E k \in 1..Len(lane) : lane[k] = segment

\* C3: processAllSegments puts every segment of the timeline in exactly one
\* of the two lanes.
C3_LanesPartitionTimeline ==
    pc \notin {"apply", "loop"} =>
        \A i \in 1..Len(timeline) :
            InLane(syncSegments(timeline), timeline[i])
                # InLane(noSyncSegments(timeline), timeline[i])

-----------------------------------------------------------------------------
(* Strings.  A string is the sequence of its characters; the operators     *)
(* below do what String.prototype.toLowerCase, replace with the regular    *)
(* expressions of CharacterMatcher, includes, startsWith and path.parse do *)
(* on strings without path separators and line terminators.                *)

UpperCase == << "A", "B", "C", "D", "E", "F", "G", "H", "I", "J", "K", "L", "M",
                "N", "O", "P", "Q", "R", "S", "T", "U", "V", "W", "X", "Y", "Z" >>
LowerCase == << "a", "b", "c", "d", "e", "f", "g", "h", "i", "j", "k", "l", "m",
                "n", "o", "p", "q", "r", "s", "t", "u", "v", "w", "x", "y", "z" >>
Range(seq) == {seq[i] : i \in 1..Len(seq)}
Digits == {"0", "1", "2", "3", "4", "5", "6", "7", "8", "9"}
WhiteSpace == {" "}

LowerChar(c) ==
    IF c \in Range(UpperCase)
    THEN LowerCase[CHOOSE i \in 1..Len(UpperCase) : UpperCase[i] = c]
    ELSE c

toLowerCase(str) == [i \in 1..Len(str) |-> LowerChar(str[i])]

\* str.includes(part)
Includes(str, part) ==
    \E i \in 0..(Len(str) - Len(part)) : SubSeq(str, i + 1, i + Len(part)) = part

\* str.startsWith(prefix)
StartsWith(str, prefix) ==
    Len(prefix) <= Len(str) /\ SubSeq(str, 1, Len(prefix)) = prefix

\* the number of characters of the class that end str
RECURSIVE TrailingRun(_, _)
TrailingRun(str, class) ==
    IF str # << >> /\ str[Len(str)] \in class
    THEN 1 + TrailingRun(SubSeq(str, 1, Len(str) - 1), class)
    ELSE 0

\* str without the characters of the class that end it
DropTrailing(str, class) == SubSeq(str, 1, Len(str) - TrailingRun(str, class))

\* replace(/\s*-\s*v\d+$/, ''): the match begins with the white space
\* before the hyphen and runs to the end of the string
StripVersionSuffix(str) ==
    LET noDigits == DropTrailing(str, Digits)
        noV == SubSeq(noDigits, 1, Len(noDigits) - 1)
        noInnerSpace == DropTrailing(noV, WhiteSpace)
        noHyphen == SubSeq(noInnerSpace, 1, Len(noInnerSpace) - 1)
    IN  IF /\ TrailingRun(str, Digits) > 0
           /\ noDigits # << >> /\ noDigits[Len(noDigits)] = "v"
           /\ noInnerSpace # << >> /\ noInnerSpace[Len(noInnerSpace)] = "-"
        THEN DropTrailing(noHyphen, WhiteSpace)
        ELSE str

\* replace(/\s*\(.*?\)$/, ''): the leftmost match begins with the white
\* space before the first opening parenthesis and runs to the closing
\* parenthesis that ends the string
StripParenthetical(str) ==
    IF /\ str # << >> /\ str[Len(str)] = ")"
       /\ \E j \in 1..(Len(str) - 1) : str[j] = "("
    THEN LET first == CHOOSE j \in 1..(Len(str) - 1) :
                         str[j] = "(" /\ \A k \in 1..(j - 1) : str[k] # "("
         IN  DropTrailing(SubSeq(str, 1, first - 1), WhiteSpace)
    ELSE str

\* replace(/\s+/g, '_') and replace(/_+/g, '_'): every run of characters of
\* the class becomes one underscore
RECURSIVE ReplaceRuns(_, _)
ReplaceRuns(str, class) ==
    IF str = << >> THEN << >>
    ELSE IF Head(str) \in class
         THEN IF Len(str) > 1 /\ str[2] \in class
              THEN ReplaceRuns(Tail(str), class)
              ELSE << "_" >> \o ReplaceRuns(Tail(str), class)
         ELSE << Head(str) >> \o ReplaceRuns(Tail(str), class)

\* replace(/[^...]/g, ''): only the characters of the class are kept
KeepOnly(str, class) == SelectSeq(str, LAMBDA c : c \in class)

\* replace(/^_|_$/g, ''): one underscore at the start and one at the end
TrimUnderscores(str) ==
    LET noLead == IF str # << >> /\ Head(str) = "_" THEN Tail(str) ELSE str
    IN  IF noLead # << >> /\ noLead[Len(noLead)] = "_"
        THEN SubSeq(noLead, 1, Len(noLead) - 1)
        ELSE noLead

\* The position of the dot that starts the extension of a file name, 0 when
\* the name has no extension (no dot, a leading dot only, or the name "..")
ExtensionDot(file) ==
    IF \E k \in 1..Len(file) : file[k] = "."
    THEN LET last == CHOOSE k \in 1..Len(file) :
                        file[k] = "." /\ \A j \in (k + 1)..Len(file) : file[j] # "."
         IN  IF last = 1 \/ file = << ".", "." >> THEN 0 ELSE last
    ELSE 0

\* path.parse(filename).name
PathName(file) ==
    IF ExtensionDot(file) = 0 THEN file ELSE SubSeq(file, 1, ExtensionDot(file) - 1)

\* path.extname(file)
PathExtname(file) ==
    IF ExtensionDot(file) = 0 THEN << >> ELSE SubSeq(file, ExtensionDot(file), Len(file))

-----------------------------------------------------------------------------
(* CharacterMatcher *)

NameChars == Range(UpperCase) \cup Range(LowerCase) \cup Digits \cup {"_"}
NormalChars == Range(LowerCase) \cup Digits \cup {"_"}

extractCharacterName(filename) ==
    TrimUnderscores(
      ReplaceRuns(
        KeepOnly(
          ReplaceRuns(
            StripParenthetical(StripVersionSuffix(PathName(filename))),
            WhiteSpace),
          NameChars),
        {"_"}))

\* the same steps with the underscores collapsed before the other
\* characters are removed
MutNormalizeString(str) ==
    TrimUnderscores(
      KeepOnly(ReplaceRuns(ReplaceRuns(toLowerCase(str), WhiteSpace), {"_"}),
               NormalChars))
normalizeString(str) ==
    TrimUnderscores(
      ReplaceRuns(
        KeepOnly(ReplaceRuns(toLowerCase(str), WhiteSpace), NormalChars),
        {"_"}))

\* getNameVariations(characterName)
ThePrefix == << "t", "h", "e", "_" >>
Abbreviations ==
    << [full |-> << "e", "t", "s", "y", "_", "q", "u", "e", "e", "n" >>,
        abbrevs |-> << << "e", "t", "s", "y" >>, << "q", "u", "e", "e", "n" >> >>],
       [full |-> << "h", "i", "g", "h", "_", "p", "r", "i", "e", "s", "t", "e", "s", "s" >>,
        abbrevs |-> << << "p", "r", "i", "e", "s", "t", "e", "s", "s" >>, << "h", "p" >> >>],
       [full |-> << "f", "o", "o", "l" >>,
        abbrevs |-> << << "t", "h", "e", "_", "f", "o", "o", "l" >> >>] >>

getNameVariations(characterName) ==
    {characterName}
    \cup (IF StartsWith(characterName, ThePrefix)
          THEN {SubSeq(characterName, Len(ThePrefix) + 1, Len(characterName))}
          ELSE {ThePrefix \o characterName})
    \cup UNION {Range(Abbreviations[i].abbrevs) :
                  i \in {j \in 1..Len(Abbreviations) :
                            Includes(characterName, Abbreviations[j].full)}}

isFuzzyMatch(speaker, character) ==
    LET speakerNorm == normalizeString(speaker)
        characterNorm == normalizeString(character)
    IN  \/ speakerNorm = characterNorm
        \/ Includes(speakerNorm, characterNorm)
        \/ Includes(characterNorm, speakerNorm)
        \/ speakerNorm \in getNameVariations(characterNorm)

\* characterMap.has / get: the positions of the entries with that key (the
\* map holds at most one)
EntriesNamed(map, name) == {i \in 1..Len(map) : map[i].name = name}

\* findCharacter(nameOrVideo): the data found, as a sequence of one entry,
\* or the empty sequence for null
findCharacter(map, nameOrVideo) ==
    LET normalizedName == normalizeString(nameOrVideo)
        fuzzy == {i \in 1..Len(map) : isFuzzyMatch(normalizedName, map[i].name)}
    IN  IF EntriesNamed(map, normalizedName) # {}
        THEN << map[CHOOSE i \in EntriesNamed(map, normalizedName) : TRUE] >>
        ELSE IF fuzzy # {}
             THEN << map[CHOOSE i \in fuzzy : \A j \in fuzzy : i <= j] >>
             ELSE << >>

SupportedFormats ==
    { << ".", "m", "p", "4" >>, << ".", "m", "o", "v" >>, << ".", "a", "v", "i" >>,
      << ".", "w", "e", "b", "m" >>, << ".", "p", "n", "g" >>, << ".", "j", "p", "g" >>,
      << ".", "j", "p", "e", "g" >> }

\* characterMap.set(characterName, {...}): a known key keeps its place in
\* the iteration order and gets the new value
MapSet(map, entry) ==
    IF EntriesNamed(map, entry.name) # {}
    THEN [i \in 1..Len(map) |-> IF map[i].name = entry.name THEN entry ELSE map[i]]
    ELSE Append(map, entry)

\* one pass of the loop of scanCharacterDirectory over a regular file
ScanEntry(map, file) ==
    IF toLowerCase(PathExtname(file)) \in SupportedFormats
    THEN MapSet(map, [name |-> extractCharacterName(file), filename |-> file])
    ELSE map

-----------------------------------------------------------------------------
(* The pipeline of generateVideo while only a component is exercised *)

PipelineIdle ==
    /\ input = Script("array", << >>, << >>, FALSE)
    /\ segments = << >>
    /\ parseError = "none"
    /\ validation = NoValidation
    /\ metaVideos = << >>
    /\ timeline = << >>
    /\ metaIndex = 0
    /\ now = 0
    /\ lastStep = NoStep
    /\ ProcessIdle

-----------------------------------------------------------------------------
(* Canonicalization of arbitrary strings *)

CanonAlphabet == {"A", "v", "1", " ", "-", "(", ")", "_", "."}
CanonInputs == SeqsUpTo(CanonAlphabet, MaxNameLen)

InitCanon ==
    /\ pc = "canon"
    /\ PipelineIdle
    /\ directory = NoDirectory
    /\ characterMap = << >>
    /\ lookup = NoLookup
    /\ canon \in {[NoCanon EXCEPT !.input = str] : str \in CanonInputs}
    /\ timingCall = NoTimingCall
    /\ poll = NoPoll
    /\ AuxIdle

\* scanCharacterDirectory derives the key of a file
ExtractName ==
    /\ pc = "canon"
    /\ canon' = [canon EXCEPT !.kind = "extractCharacterName",
                              !.once = extractCharacterName(canon.input)]
    /\ pc' = "once"
    /\ UNCHANGED <<parseVars, composeVars, processVars, auxVars, directory, characterMap, lookup,
                   timingCall, poll>>

\* findCharacter normalizes the name it is given
NormalizeName ==
    /\ pc = "canon"
    /\ canon' = [canon EXCEPT !.kind = "normalizeString",
                              !.once = normalizeString(canon.input)]
    /\ pc' = "once"
    /\ UNCHANGED <<parseVars, composeVars, processVars, auxVars, directory, characterMap, lookup,
                   timingCall, poll>>

\* the canonical form is canonicalized again (as isFuzzyMatch does with the
\* normalized name findCharacter hands it)
Recanonicalize ==
    /\ pc = "once"
    /\ canon' = [canon EXCEPT !.twice = IF canon.kind = "normalizeString"
                                        THEN normalizeString(canon.once)
                                        ELSE extractCharacterName(canon.once)]
    /\ pc' = "twice"
    /\ UNCHANGED <<parseVars, composeVars, processVars, auxVars, directory, characterMap, lookup,
                   timingCall, poll>>

NextCanon == ExtractName \/ NormalizeName \/ Recanonicalize

SpecCanon == InitCanon /\ [][NextCanon]_vars

-----------------------------------------------------------------------------
(* CharacterMatcher.initialize and findCharacter *)

\* files of a characters directory
CharacterFiles ==
    { << "E", "m", "p", "r", "e", "s", "s", ".", "p", "n", "g" >>,
      << "T", "h", "e", "_", "E", "m", "p", "r", "e", "s", "s", ".", "p", "n", "g" >>,
      << "T", "h", "e", " ", "E", "m", "p", "r", "e", "s", "s", ".", "M", "O", "V" >>,
      << "t", "h", "e", "_", "f", "o", "o", "l", ".", "m", "p", "4" >>,
      << "F", "o", "o", "l", " ", "-", " ", "v", "2", ".", "p", "n", "g" >>,
      << "h", "p", " ", "(", "o", "l", "d", ")", ".", "j", "p", "g" >>,
      << "n", "o", "t", "e", "s", ".", "t", "x", "t" >> }

\* names a script gives its speakers
SpeakerNames ==
    { << "T", "h", "e", " ", "E", "m", "p", "r", "e", "s", "s" >>,
      << "f", "o", "o", "l" >>,
      << "p", "r", "i", "e", "s", "t", "e", "s", "s" >> }

\* directory listings: no file name twice
Listings ==
    {files \in SeqsUpTo(CharacterFiles, MaxFiles) :
        \A i, j \in 1..Len(files) : i # j => files[i] # files[j]}

InitMatch ==
    /\ pc = "scan"
    /\ PipelineIdle
    /\ directory \in {[files |-> files, next |-> 1] : files \in Listings}
    /\ characterMap = << >>
    /\ lookup = NoLookup
    /\ canon = NoCanon
    /\ timingCall = NoTimingCall
    /\ poll = NoPoll
    /\ AuxIdle

\* one pass of the loop of scanCharacterDirectory
ScanFile ==
    /\ pc = "scan"
    /\ directory.next <= Len(directory.files)
    /\ characterMap' = ScanEntry(characterMap, directory.files[directory.next])
    /\ directory' = [directory EXCEPT !.next = @ + 1]
    /\ UNCHANGED <<pc, parseVars, composeVars, processVars, auxVars, lookup, canon, timingCall, poll>>

\* initialize returns
InitializeReturn ==
    /\ pc = "scan"
    /\ directory.next > Len(directory.files)
    /\ pc' = "ready"
    /\ UNCHANGED <<parseVars, composeVars, processVars, auxVars, matcherVars, timingCall, poll>>

\* findCharacter(nameOrVideo)
FindCharacter(nameOrVideo) ==
    /\ pc = "ready"
    /\ lookup' = [called |-> TRUE,
                  name |-> nameOrVideo,
                  normalizedName |-> normalizeString(nameOrVideo),
                  found |-> findCharacter(characterMap, nameOrVideo)]
    /\ UNCHANGED <<pc, parseVars, composeVars, processVars, auxVars, directory, characterMap, canon,
                   timingCall, poll>>

NextMatch ==
    \/ ScanFile
    \/ InitializeReturn
    \/ \E name \in SpeakerNames \cup {characterMap[i].name : i \in 1..Len(characterMap)} :
          FindCharacter(name)

SpecMatch == InitMatch /\ [][NextMatch]_vars

-----------------------------------------------------------------------------
(* Properties of the asset resolver *)

\* C11: findCharacter called with a name that exactly equals the canonical
\* name of an asset of the catalog returns that asset, whatever else the
\* catalog holds and whatever the scan order.
C11_ExactNameFindsItsAsset ==
    lookup.called =>
        \A i \in 1..Len(characterMap) :
            characterMap[i].name = lookup.name => lookup.found = << characterMap[i] >>

\* C12: canonicalization is idempotent: extractCharacterName and
\* normalizeString applied to their own output return it unchanged.
C12_CanonicalizationIdempotent ==
    pc = "twice" => canon.twice = canon.once

C12_Witness ==
    /\ pc = "twice"
    /\ canon.kind = "normalizeString"
    /\ canon.input = << "A", " ", "-", "v" >>
    /\ canon.once = << "a", "_", "v" >>

-----------------------------------------------------------------------------
(* MetaVideoManager.processTiming *)

\* offset = 0 in the destructuring: the default stands for undefined only
OffsetOf(timing) == IF timing.offset = Undef THEN Num(0) ELSE timing.offset

\* startTime and endTime as the branches of processTiming assign them
ResolveWindow(timing, totalDuration) ==
    LET offset == OffsetOf(timing)
        total == Num(totalDuration)
    IN  IF timing.start # Undef
        THEN LET startTime == JsAdd(timing.start, offset)
             IN  [ start |-> startTime,
                   end |-> IF timing.end # Undef THEN JsAdd(timing.end, offset)
                           ELSE IF timing.duration # Undef
                                THEN JsAdd(startTime, timing.duration)
                                ELSE total ]
        ELSE IF timing.fromEnd # Undef \/ timing.beforeEnd # Undef
        THEN LET secondsFromEnd == JsOr(timing.fromEnd, timing.beforeEnd)
             IN  [ start |-> JsAdd(JsSub(total, secondsFromEnd), offset),
                   end |-> JsAdd(total, offset) ]
        ELSE IF timing.end # Undef
        THEN LET endTime == JsAdd(timing.end, offset)
             IN  [ start |-> IF timing.duration # Undef
                             THEN JsSub(endTime, timing.duration)
                             ELSE Num(0),
                   end |-> endTime ]
        ELSE [ start |-> JsAdd(Num(0), offset), end |-> JsAdd(total, offset) ]

\* the validation: each comparison is false when an operand is NaN
WindowRejected(window, totalDuration) ==
    \/ JsLt(window.start, Num(0))
    \/ JsLe(window.end, window.start)
    \/ JsGt(window.end, Num(totalDuration + TimingTolerance))

\* processTiming(timing, totalDuration): the empty sequence stands for null
processTiming(timing, totalDuration) ==
    LET window == ResolveWindow(timing, totalDuration)
    IN  IF WindowRejected(window, totalDuration)
        THEN << >>
        ELSE << [ start |-> window.start,
                  end |-> window.end,
                  duration |-> JsSub(window.end, window.start) ] >>

\* timing specifications: times inside the video, before it, and around
\* the tolerance past its end
TimeValues ==
    {Undef} \cup {Num(n) : n \in -1..MaxTimingValue}
            \cup {Num(TimingTolerance + n) : n \in 0..(MaxTimingValue + 1)}
SpanValues == {Undef} \cup {Num(n) : n \in 0..MaxTimingValue}
OffsetValues == {Undef, Num(-1), Num(1)}

TimingSpecs ==
    [ start : TimeValues, end : TimeValues, duration : SpanValues, fromEnd : SpanValues,
      beforeEnd : {Undef, Num(0), Num(1)}, offset : OffsetValues ]

InitTiming ==
    /\ pc = "timing"
    /\ PipelineIdle
    /\ directory = NoDirectory
    /\ characterMap = << >>
    /\ lookup = NoLookup
    /\ canon = NoCanon
    /\ timingCall \in {[NoTimingCall EXCEPT !.timing = timing, !.totalDuration = total] :
                          timing \in TimingSpecs, total \in 1..MaxTotalDuration}
    /\ poll = NoPoll
    /\ AuxIdle

\* processMetaDefinition calls processTiming(timing, totalDuration)
ProcessTiming ==
    /\ pc = "timing"
    /\ timingCall' =
          [timingCall EXCEPT
              !.called = TRUE,
              !.window = ResolveWindow(timingCall.timing, timingCall.totalDuration),
              !.result = processTiming(timingCall.timing, timingCall.totalDuration)]
    /\ pc' = "timed"
    /\ UNCHANGED <<parseVars, composeVars, processVars, auxVars, matcherVars, poll>>

NextTiming == ProcessTiming

SpecTiming == InitTiming /\ [][NextTiming]_vars

-----------------------------------------------------------------------------
(* Properties of the timing resolution *)

Given(field) == timingCall.timing[field] # Undef
Field(field) == timingCall.timing[field].v
GivenOffset == OffsetOf(timingCall.timing).v

\* C13: processTiming resolves the window by the first applicable mode in
\* the order start+end, start+duration, start alone (to totalDuration),
\* fromEnd/beforeEnd, end+duration, end alone (from 0), nothing (the whole
\* video); fromEnd = s yields start = totalDuration - s and
\* end = totalDuration (beforeEnd is the alias used when fromEnd is not
\* given), each moved by the offset the code applies in that mode.
C13_TimingModePriority ==
    timingCall.called =>
        LET total == timingCall.totalDuration
            expected ==
              IF Given("start") /\ Given("end")
              THEN << Field("start") + GivenOffset, Field("end") + GivenOffset >>
              ELSE IF Given("start") /\ Given("duration")
              THEN << Field("start") + GivenOffset,
                      Field("start") + GivenOffset + Field("duration") >>
              ELSE IF Given("start")
              THEN << Field("start") + GivenOffset, total >>
              ELSE IF Given("fromEnd")
              THEN << total - Field("fromEnd") + GivenOffset, total + GivenOffset >>
              ELSE IF Given("beforeEnd")
              THEN << total - Field("beforeEnd") + GivenOffset, total + GivenOffset >>
              ELSE IF Given("end") /\ Given("duration")
              THEN << Field("end") + GivenOffset - Field("duration"),
                      Field("end") + GivenOffset >>
              ELSE IF Given("end")
              THEN << 0, Field("end") + GivenOffset >>
              ELSE << GivenOffset, total + GivenOffset >>
        IN  /\ timingCall.window.start = Num(expected[1])
            /\ timingCall.window.end = Num(expected[2])

\* C14: in the modes start+end, start+duration, start alone, end+duration,
\* end alone and nothing specified, a given offset is added to both the
\* resolved start and the resolved end: the window is the window of the same
\* specification without offset, moved by the offset.
C14_OffsetMovesBothBounds ==
    (timingCall.called /\ Given("offset") /\ (Given("start") \/ ~(Given("fromEnd") \/ Given("beforeEnd")))) =>
        LET plain == ResolveWindow([timingCall.timing EXCEPT !.offset = Undef],
                                   timingCall.totalDuration)
        IN  /\ timingCall.window.start = Num(plain.start.v + GivenOffset)
            /\ timingCall.window.end = Num(plain.end.v + GivenOffset)

\* C15: processTiming returns null exactly when the computed window has
\* start < 0, end <= start or end > totalDuration + 10; every result that
\* is not null has 0 <= start < end <= totalDuration + 10 and
\* duration = end - start > 0.
C15_NonNullWindowIsValid ==
    timingCall.called =>
        /\ timingCall.result = << >> <=>
              WindowRejected(timingCall.window, timingCall.totalDuration)
        /\ timingCall.result # << >> =>
              LET w == timingCall.result[1]
              IN  /\ IsNum(w.start) /\ IsNum(w.end) /\ IsNum(w.duration)
                  /\ 0 <= w.start.v
                  /\ w.start.v < w.end.v
                  /\ w.end.v <= timingCall.totalDuration + TimingTolerance
                  /\ w.duration.v = w.end.v - w.start.v
                  /\ w.duration.v > 0

-----------------------------------------------------------------------------
(* Properties of the segments the compositor inserts *)

\* the segments of the timeline that the parser did not produce
Inserted(tl) == {i \in 1..Len(tl) : tl[i].id.prefix # "segment"}

\* C16: every segment the compositor inserts, in any placement mode
\* (replace, overlay, before, after), has sync = false and type = meta.
C16_InsertedSegmentsAreMeta ==
    pc \in {"loop", "composed"} =>
        \A i \in Inserted(timeline) :
            timeline[i].sync = "false" /\ timeline[i].type = "meta"

-----------------------------------------------------------------------------
(* Properties of the end of a run *)

\* the run of generateVideo has ended: it returned or it threw
RunEnded == pc \in {"concatenated", "thrown"}

\* segments of the two lanes whose clip was produced, and those whose
\* processing failed at some step
SucceededIds ==
    {syncSegments(timeline)[k].id : k \in {j \in DOMAIN generation : generation[j] = "fulfilled"}}
    \cup Reported(cutaway.successful)
FailedIds ==
    {syncSegments(timeline)[k].id : k \in {j \in DOMAIN preprocessed : preprocessed[j] = "failed"}}
    \cup {syncSegments(timeline)[k].id : k \in {j \in DOMAIN generation : generation[j] = "caught"}}
    \cup Reported(cutaway.errors)

\* C17: a run in which no segment succeeds fails with the no-content error
\* and hands nothing to concatenation; a run in which at least one segment
\* succeeds concatenates the successful clips and returns a result whose
\* failedCount and errors report every failed segment.
C17_NoContentOrBestEffort ==
    RunEnded =>
        IF SucceededIds = {}
        THEN /\ thrown = "No videos were successfully generated"
             /\ sortedVideos = << >>
        ELSE /\ pc = "concatenated"
             /\ Reported(sortedVideos) = SucceededIds
             /\ finalVideo.failedCount = Cardinality(FailedIds)
             /\ Reported(finalVideo.errors) = FailedIds

-----------------------------------------------------------------------------
(* Properties of the sync lane's batches *)

InFlight == {k \in DOMAIN generation : generation[k] = "running"}
Settled == {k \in DOMAIN generation : generation[k] \in {"fulfilled", "caught"}}
BatchOf(k) == (k - 1) \div BatchSize(options)

\* C18: the number of lip-sync generations in flight never exceeds the
\* configured batch size, which is 1 when the caller gives none, and no
\* segment of a later batch is started before every segment of the earlier
\* batches has settled.
C18_InFlightWithinBatchSize ==
    /\ Cardinality(InFlight) <= BatchSize(options)
    /\ options.batchSize = Undef => Cardinality(InFlight) <= 1
    /\ \A j, k \in DOMAIN generation :
          (BatchOf(j) < BatchOf(k) /\ generation[k] # "idle") => j \in Settled

C18_Witness ==
    /\ options.batchSize = Undef
    /\ Len(generation) = 2
    /\ 1 \in Settled
    /\ InFlight = {2}

-----------------------------------------------------------------------------
(* SyncAPI.waitForCompletion *)

\* What one pass of the loop meets: the status the poll returns (a
\* COMPLETED generation is then downloaded, which may throw), or a poll
\* request that itself throws
PollResponses ==
    {"COMPLETED", "COMPLETED, download throws", "FAILED", "IN_PROGRESS", "PROCESSING",
     "request throws"}

\* the responses that throw inside the try block and reach the catch
CaughtResponses == {"COMPLETED, download throws", "FAILED", "request throws"}

\* Math.min(2000 + (attempt * 1000), 10000), in milliseconds
waitTime(attempt) ==
    IF 2000 + (attempt * 1000) < 10000 THEN 2000 + (attempt * 1000) ELSE 10000

\* the wait of the catch block before it retries
RetryWait == 5000

\* the wait that follows a poll of a status neither COMPLETED nor FAILED:
\* the branch of IN_PROGRESS waits, any other status falls out of the try
\* block and the loop polls again at once
PendingWait(response, attempt) ==
    IF response = "IN_PROGRESS" THEN waitTime(attempt) ELSE 0

\* attempt < maxAttempts; MutLoopContinues lets the loop make one pass more
MutLoopContinues(attempt, maxAttempts) == attempt <= maxAttempts
LoopContinues(attempt, maxAttempts) == attempt < maxAttempts

InitPoll ==
    /\ pc = "wait"
    /\ PipelineIdle
    /\ directory = NoDirectory
    /\ characterMap = << >>
    /\ lookup = NoLookup
    /\ canon = NoCanon
    /\ timingCall = NoTimingCall
    /\ poll \in {[NoPoll EXCEPT !.called = TRUE, !.maxAttempts = n] : n \in 1..MaxAttempts}
    /\ AuxIdle

\* a pass in which the generation is COMPLETED and downloaded: the result
\* is returned
PollCompleted ==
    /\ pc = "wait"
    /\ LoopContinues(poll.attempt, poll.maxAttempts)
    /\ poll' = [poll EXCEPT !.history = Append(@, "COMPLETED"), !.waits = Append(@, 0)]
    /\ pc' = "returned"
    /\ UNCHANGED <<parseVars, composeVars, processVars, auxVars, matcherVars, timingCall>>

\* a pass that throws inside the try block: the catch rethrows on the last
\* attempt, otherwise it waits and the loop goes on
PollCaught(response) ==
    /\ pc = "wait"
    /\ LoopContinues(poll.attempt, poll.maxAttempts)
    /\ response \in CaughtResponses
    /\ IF poll.attempt = poll.maxAttempts - 1
       THEN /\ poll' = [poll EXCEPT !.history = Append(@, response),
                                    !.waits = Append(@, 0),
                                    !.error = "Generation polling failed"]
            /\ pc' = "threw"
       ELSE /\ poll' = [poll EXCEPT !.history = Append(@, response),
                                    !.waits = Append(@, RetryWait),
                                    !.attempt = @ + 1]
            /\ pc' = "wait"
    /\ UNCHANGED <<parseVars, composeVars, processVars, auxVars, matcherVars, timingCall>>

\* a pass in which the generation is neither COMPLETED nor FAILED: the loop
\* goes on (after a wait when the status is IN_PROGRESS)
PollPending(response) ==
    /\ pc = "wait"
    /\ LoopContinues(poll.attempt, poll.maxAttempts)
    /\ response \in {"IN_PROGRESS", "PROCESSING"}
    /\ poll' = [poll EXCEPT !.history = Append(@, response),
                             !.waits = Append(@, PendingWait(response, poll.attempt)),
                             !.attempt = @ + 1]
    /\ UNCHANGED <<pc, parseVars, composeVars, processVars, auxVars, matcherVars, timingCall>>

\* the loop ends without a result
PollGiveUp ==
    /\ pc = "wait"
    /\ ~LoopContinues(poll.attempt, poll.maxAttempts)
    /\ poll' = [poll EXCEPT !.error = "did not complete within expected time"]
    /\ pc' = "threw"
    /\ UNCHANGED <<parseVars, composeVars, processVars, auxVars, matcherVars, timingCall>>

NextPoll ==
    \/ PollCompleted
    \/ \E response \in CaughtResponses : PollCaught(response)
    \/ \E response \in {"IN_PROGRESS", "PROCESSING"} : PollPending(response)
    \/ PollGiveUp

SpecPoll == InitPoll /\ [][NextPoll]_vars

\* every await of the loop settles: the service answers or the request
\* errors, and the timers fire
SpecPollLive == SpecPoll /\ WF_vars(NextPoll)

-----------------------------------------------------------------------------
(* Properties of the polling *)

\* the status polls issued so far
Polls == Len(poll.history)

\* C19: waitForCompletion terminates: it issues at most maxAttempts status
\* polls and then returns a result or throws.
C19_PollingTerminates ==
    /\ [](poll.called => Polls <= poll.maxAttempts)
    /\ (poll.called ~> (pc \in {"returned", "threw"}))

C19_Witness ==
    /\ pc = "threw"
    /\ poll.maxAttempts = 2
    /\ poll.history = << "IN_PROGRESS", "IN_PROGRESS" >>
    /\ poll.error = "did not complete within expected time"

\* C20: once a poll reports FAILED, waitForCompletion throws without
\* issuing a further poll: a FAILED status is the last poll of the call and
\* ends it.
C20_FailedStatusEndsPolling ==
    poll.called =>
        \A i \in 1..Polls :
            poll.history[i] = "FAILED" => (i = Polls /\ pc = "threw")

-----------------------------------------------------------------------------
(* Staged uploads over a run of generateVideo: SyncAPI.generateLipSync     *)
(* uploads the character video and the audio of each sync segment (one     *)
(* segment at a time, the default batch size), SyncAPI.cleanup deletes     *)
(* what uploadedFiles names.  A staged file is the pair of its segment and *)
(* its kind.                                                               *)

UploadKinds == {"video", "audio"}

\* uploadAndGetShareableLink: it returns, filesUpload throws, or the file is
\* uploaded and filesGetTemporaryLink throws
UploadOutcomes == {"ok", "upload throws", "link throws"}

InitStaging ==
    /\ pc = "stage"
    /\ PipelineIdle
    /\ directory = NoDirectory
    /\ characterMap = << >>
    /\ lookup = NoLookup
    /\ canon = NoCanon
    /\ timingCall = NoTimingCall
    /\ poll = NoPoll
    /\ staging \in {[NoStaging EXCEPT !.called = TRUE, !.cleanupOption = option, !.count = n,
                                      !.uploads = [k \in 1..n |-> [kind \in UploadKinds |-> "idle"]]] :
                       option \in BOOLEAN, n \in 1..MaxStageSegs}
    /\ resolution = NoResolution
    /\ metaCommand = NoMetaCommand

\* generateLipSync of the next segment starts both uploads (Promise.all)
StartUploads ==
    /\ pc = "stage"
    /\ staging.next <= staging.count
    /\ staging' = [staging EXCEPT !.uploads[staging.next] = [kind \in UploadKinds |-> "pending"]]
    /\ pc' = "uploading"
    /\ UNCHANGED <<parseVars, composeVars, processVars, matcherVars, timingCall, poll,
                   resolution, metaCommand>>

\* one upload settles, also after Promise.all has rejected for the other
UploadSettle(k, kind, outcome) ==
    /\ staging.called
    /\ k \in 1..staging.count
    /\ staging.uploads[k][kind] = "pending"
    /\ staging' = [staging EXCEPT
                      !.uploads[k][kind] = IF outcome = "ok" THEN "uploaded" ELSE "failed",
                      !.staged = IF outcome = "upload throws" THEN @ ELSE @ \cup {<<k, kind>>}]
    /\ UNCHANGED <<pc, parseVars, composeVars, processVars, matcherVars, timingCall, poll,
                   resolution, metaCommand>>

\* Promise.all fulfils: both paths are pushed to uploadedFiles
UploadsRecorded ==
    /\ pc = "uploading"
    /\ \A kind \in UploadKinds : staging.uploads[staging.next][kind] = "uploaded"
    /\ staging' = [staging EXCEPT
                      !.uploadedFiles = @ \cup {<<staging.next, kind>> : kind \in UploadKinds}]
    /\ pc' = "generating"
    /\ UNCHANGED <<parseVars, composeVars, processVars, matcherVars, timingCall, poll,
                   resolution, metaCommand>>

\* Promise.all rejects with the first upload that fails: generateLipSync
\* throws, generateBatch records the error and goes on
UploadsRejected ==
    /\ pc = "uploading"
    /\ \E kind \in UploadKinds : staging.uploads[staging.next][kind] = "failed"
    /\ staging' = [staging EXCEPT !.next = @ + 1]
    /\ pc' = "stage"
    /\ UNCHANGED <<parseVars, composeVars, processVars, matcherVars, timingCall, poll,
                   resolution, metaCommand>>

\* the generation is created and awaited: a result, or an error
GenerationEnds(outcome) ==
    /\ pc = "generating"
    /\ staging' = [staging EXCEPT !.next = @ + 1,
                                  !.succeeded = IF outcome = "ok" THEN @ + 1 ELSE @]
    /\ pc' = "stage"
    /\ UNCHANGED <<parseVars, composeVars, processVars, matcherVars, timingCall, poll,
                   resolution, metaCommand>>

\* processAllSegments has returned; concatenateVideos throws when nothing
\* succeeded, and generateVideo rethrows
ProcessingEnds ==
    /\ pc = "stage"
    /\ staging.next > staging.count
    /\ pc' = IF staging.succeeded = 0 THEN "failed" ELSE "concatenate"
    /\ UNCHANGED <<parseVars, composeVars, processVars, componentVars>>

\* the concatenation returns or throws; step 6 runs unless options.cleanup
\* is false
ConcatenationEnds(outcome) ==
    /\ pc = "concatenate"
    /\ pc' = IF outcome # "ok" THEN "failed"
             ELSE IF staging.cleanupOption THEN "cleanup" ELSE "returned"
    /\ UNCHANGED <<parseVars, composeVars, processVars, componentVars>>

\* VideoGenerator.cleanup throws while it removes local files: the catch
\* logs it and SyncAPI.cleanup is not reached
CleanupInterrupted ==
    /\ pc = "cleanup"
    /\ pc' = "returned"
    /\ UNCHANGED <<parseVars, composeVars, processVars, componentVars>>

\* VideoGenerator.cleanup reaches SyncAPI.cleanup: cleanupFiles deletes the
\* files (each deletion may fail and is only logged), uploadedFiles = []
CleanupUploads(deleted) ==
    /\ pc = "cleanup"
    /\ deleted \subseteq staging.uploadedFiles
    /\ staging' = [staging EXCEPT !.handed = @ \cup staging.uploadedFiles,
                                  !.staged = @ \ deleted,
                                  !.uploadedFiles = {}]
    /\ pc' = "returned"
    /\ UNCHANGED <<parseVars, composeVars, processVars, matcherVars, timingCall, poll,
                   resolution, metaCommand>>

NextStaging ==
    \/ StartUploads
    \/ \E k \in 1..MaxStageSegs + 1, kind \in UploadKinds, outcome \in UploadOutcomes :
          UploadSettle(k, kind, outcome)
    \/ UploadsRecorded
    \/ UploadsRejected
    \/ \E outcome \in Outcomes : GenerationEnds(outcome)
    \/ ProcessingEnds
    \/ \E outcome \in Outcomes : ConcatenationEnds(outcome)
    \/ CleanupInterrupted
    \/ \E deleted \in SUBSET staging.uploadedFiles : CleanupUploads(deleted)

SpecStaging == InitStaging /\ [][NextStaging]_vars

-----------------------------------------------------------------------------
(* Properties of the staged uploads *)

\* C21: every run of generateVideo, whether it returns or throws, ends with
\* the staged uploads handed to cleanup: SyncAPI.uploadedFiles is empty when
\* the run has ended.
C21_RunEndsWithUploadsCleaned ==
    (staging.called /\ pc \in {"returned", "failed"}) => staging.uploadedFiles = {}

\* the segments whose generateLipSync is past its uploads
PastUploads ==
    {k \in 1..staging.count :
        k < staging.next \/ (k = staging.next /\ pc = "generating")}

\* C30: every file that generateLipSync uploaded successfully is recorded
\* in uploadedFiles (or was handed to cleanup already), also when the other
\* upload of its segment failed.
C30_UploadedFilesAreRecorded ==
    staging.called =>
        \A k \in PastUploads, kind \in UploadKinds :
            staging.uploads[k][kind] = "uploaded" =>
                <<k, kind>> \in staging.uploadedFiles \cup staging.handed

-----------------------------------------------------------------------------
(* Further properties of applyMetaVideos *)

\* C22: all segment ids in the timeline applyMetaVideos returns are
\* pairwise distinct, also when the same meta video is placed more than
\* once and several placements are processed at one clock reading.
C22_TimelineIdsDistinct ==
    pc = "composed" =>
        \A i, j \in 1..Len(timeline) : i # j => timeline[i].id # timeline[j].id

\* the one-to-one index maps that take a sorted array back to the original
SortMaps(n) ==
    {f \in [1..n -> 1..n] : \A a, b \in 1..n : a # b => f[a] # f[b]}

\* sorted holds the elements of original in ascending start, and elements
\* of equal start in the order they have in original
IsStableOrderOf(sorted, original) ==
    /\ Len(sorted) = Len(original)
    /\ \E f \in SortMaps(Len(original)) :
          /\ \A i \in 1..Len(sorted) : sorted[i] = original[f[i]]
          /\ \A i, j \in 1..Len(sorted) :
                i < j => \/ sorted[i].timing.start < sorted[j].timing.start
                         \/ /\ sorted[i].timing.start = sorted[j].timing.start
                            /\ f[i] < f[j]

\* a step of applyMetaVideos keeps to the stable order: the order fixed on
\* entry is the stable order, each step of the loop takes the next placement
PlacementOrderStep ==
    /\ (pc = "apply" /\ pc' = "loop") =>
          /\ IsStableOrderOf(metaVideos', metaVideos)
          /\ metaIndex' = 1
    /\ (pc = "loop" /\ pc' = "loop") =>
          /\ metaVideos' = metaVideos
          /\ lastStep'.meta = metaVideos[metaIndex]
          /\ metaIndex' = metaIndex + 1

InputsKeptStep ==
    pc \in {"apply", "loop"} =>
        /\ metaVideos' = metaVideos
        /\ Len(segments') = Len(segments)
        /\ \A i \in 1..Len(segments) :
              /\ segments'[i].id = segments[i].id
              /\ segments'[i].start = segments[i].start
              /\ segments'[i].end = segments[i].end

\* C25: applyMetaVideos leaves its inputs unchanged: no step of it changes
\* the caller's base segments (same segments, same order, same start and
\* end) and none changes the order of the caller's placements array.
C25_InputsUnchanged == [][InputsKeptStep]_vars

-----------------------------------------------------------------------------
(* The meta command: processMetaVideoDefinitions resolves the definitions  *)
(* of the script against the catalog of scanMetaVideos, then each          *)
(* processed meta video is clipped and trimmed to its window.              *)

Null == [t |-> "null", v |-> 0]

\* ToNumber: null is 0, undefined is NaN
JsNumber(x) == IF x = Null THEN Num(0) ELSE IF IsNum(x) THEN x ELSE NaN

\* truthiness of a number, undefined or null
JsTruthy(x) == IsNum(x) /\ x.v # 0

\* the catalog entries of scanMetaVideos, keyed `${category}:${videoName}`
MetaEntry(category, videoName) ==
    [name |-> videoName, category |-> category, type |-> "video"]

ScannedMetaVideos ==
    { MetaEntry(<< "i", "n", "t", "r", "o", "s" >>, << "m" >>),
      MetaEntry(<< "o", "u", "t", "r", "o", "s" >>, << "m" >>) }

\* this.metaVideos.get(`${category}:${name}`): empty for undefined
MetaVideosGet(category, name) ==
    LET hits == {e \in ScannedMetaVideos : e.category = category /\ e.name = name}
    IN  IF hits = {} THEN << >> ELSE << CHOOSE e \in hits : TRUE >>

pluralCategory(category) ==
    IF category # << >> /\ category[Len(category)] = "s" THEN category
    ELSE category \o << "s" >>

getMetaVideo(category, name) ==
    IF MetaVideosGet(category, name) # << >> THEN MetaVideosGet(category, name)
    ELSE MetaVideosGet(pluralCategory(category), name)

processClipping(clip) ==
    LET clipStart == IF clip.start = Undef THEN Num(0) ELSE clip.start
        clipEnd == IF clip.duration # Undef THEN JsAdd(clipStart, clip.duration) ELSE clip.end
    IN  [ start |-> clipStart,
          end |-> clipEnd,
          duration |-> IF JsTruthy(clipEnd) THEN JsSub(clipEnd, clipStart) ELSE Null ]

\* processMetaDefinition(meta, totalDuration): the empty sequence for null;
\* index stands for the definition object kept as originalDefinition
processMetaDefinition(meta, index, totalDuration) ==
    IF ~meta.include THEN << >>
    ELSE IF getMetaVideo(meta.type, meta.name) = << >> THEN << >>
    ELSE IF processTiming(meta.timing, totalDuration) = << >> THEN << >>
    ELSE LET metaVideo == getMetaVideo(meta.type, meta.name)[1]
         IN  << [ name |-> metaVideo.name,
                  category |-> metaVideo.category,
                  type |-> metaVideo.type,
                  timing |-> processTiming(meta.timing, totalDuration)[1],
                  clip |-> processClipping(meta.clip),
                  position |-> meta.position,
                  originalDefinition |-> index ] >>

NoTiming == NoTimingCall.timing
NoClip == [start |-> Undef, end |-> Undef, duration |-> Undef]

DefinitionTimings ==
    { NoTiming,
      [NoTiming EXCEPT !.fromEnd = Num(0)],
      [NoTiming EXCEPT !.start = Num(0), !.duration = Num(1)],
      [NoTiming EXCEPT !.start = Num(2), !.end = Num(1)] }

DefinitionClips ==
    { NoClip,
      [NoClip EXCEPT !.start = Num(1)],
      [NoClip EXCEPT !.duration = Num(2)] }

MetaTypes ==
    { << "i", "n", "t", "r", "o" >>, << "o", "u", "t", "r", "o" >>,
      << "o", "u", "t", "r", "o", "s" >> }

MetaDefinition(type, name, include, timing, clip) ==
    [ type |-> type, name |-> name, include |-> include, timing |-> timing, clip |-> clip,
      position |-> "replace" ]

\* the definitions of a script: included ones of a catalogued name with each
\* timing and clip, one excluded, one of an unknown name
MetaDefinitions ==
    { MetaDefinition(type, << "m" >>, TRUE, timing, clip) :
         type \in MetaTypes, timing \in DefinitionTimings, clip \in DefinitionClips }
    \cup { MetaDefinition(<< "o", "u", "t", "r", "o" >>, << "m" >>, FALSE, NoTiming, NoClip),
           MetaDefinition(<< "o", "u", "t", "r", "o" >>, << "x" >>, TRUE, NoTiming, NoClip) }

InitMeta ==
    /\ pc = "meta"
    /\ PipelineIdle
    /\ directory = NoDirectory
    /\ characterMap = << >>
    /\ lookup = NoLookup
    /\ canon = NoCanon
    /\ timingCall = NoTimingCall
    /\ poll = NoPoll
    /\ staging = NoStaging
    /\ resolution \in {[NoResolution EXCEPT !.definitions = defs, !.totalDuration = total] :
                          defs \in SeqsUpTo(MetaDefinitions, MaxDefs) \ {<< >>},
                          total \in 1..MaxTotalDuration}
    /\ metaCommand \in {[NoMetaCommand EXCEPT !.sourceLength = length] :
                           length \in 1..MaxSourceLength}

\* processMetaVideoDefinitions is called with the script's definitions
DefinitionsBegin ==
    /\ pc = "meta"
    /\ resolution' = [resolution EXCEPT !.called = TRUE]
    /\ metaCommand' = [metaCommand EXCEPT !.called = TRUE]
    /\ pc' = "definitions"
    /\ UNCHANGED <<parseVars, composeVars, processVars, matcherVars, timingCall, poll, staging>>

\* one turn of the loop of processMetaVideoDefinitions
ProcessDefinition ==
    /\ pc = "definitions"
    /\ resolution.next <= Len(resolution.definitions)
    /\ resolution' =
          [resolution EXCEPT
              !.next = @ + 1,
              !.processedMetas =
                  @ \o processMetaDefinition(resolution.definitions[resolution.next],
                                             resolution.next, resolution.totalDuration)]
    /\ UNCHANGED <<pc, parseVars, composeVars, processVars, matcherVars, timingCall, poll,
                   staging, metaCommand>>

\* processMetaVideoDefinitions returns; the command ends when nothing is left
DefinitionsReturn ==
    /\ pc = "definitions"
    /\ resolution.next > Len(resolution.definitions)
    /\ pc' = IF resolution.processedMetas = << >> THEN "done" ELSE "overlays"
    /\ UNCHANGED <<parseVars, composeVars, processVars, componentVars>>

\* the two extractVideoSegment calls the command makes for one meta video:
\* the clip, and the trim when the clip is longer than the window
Extraction(meta) ==
    LET timelineSpace == meta.timing.duration
        clippedDuration == meta.clip.duration
        trims == JsGt(JsNumber(clippedDuration), JsNumber(timelineSpace))
    IN  [ meta |-> meta.originalDefinition,
          clipFrom |-> meta.clip.start,
          clipTo |-> JsAdd(JsNumber(meta.clip.start), JsNumber(meta.clip.duration)),
          trim |-> IF ~trims THEN "none"
                   ELSE IF meta.type = "outro" THEN "beginning" ELSE "end",
          trimFrom |-> IF ~trims THEN Undef
                       ELSE IF meta.type = "outro"
                            THEN JsSub(JsNumber(clippedDuration), JsNumber(timelineSpace))
                            ELSE Num(0),
          trimTo |-> IF ~trims THEN Undef
                     ELSE IF meta.type = "outro" THEN clippedDuration ELSE timelineSpace ]

\* one turn of the loop over processedMetaVideos
PrepareOverlay ==
    /\ pc = "overlays"
    /\ metaCommand.next <= Len(resolution.processedMetas)
    /\ metaCommand' =
          [metaCommand EXCEPT
              !.next = @ + 1,
              !.extractions = Append(@, Extraction(resolution.processedMetas[metaCommand.next]))]
    /\ UNCHANGED <<pc, parseVars, composeVars, processVars, matcherVars, timingCall, poll,
                   staging, resolution>>

OverlaysReady ==
    /\ pc = "overlays"
    /\ metaCommand.next > Len(resolution.processedMetas)
    /\ pc' = "done"
    /\ UNCHANGED <<parseVars, composeVars, processVars, componentVars>>

NextMeta ==
    \/ DefinitionsBegin
    \/ ProcessDefinition
    \/ DefinitionsReturn
    \/ PrepareOverlay
    \/ OverlaysReady

SpecMeta == InitMeta /\ [][NextMeta]_vars

-----------------------------------------------------------------------------
(* Properties of the meta command *)

\* the window the timing of a definition resolves to is a valid one
ValidTiming(meta, totalDuration) ==
    LET window == ResolveWindow(meta.timing, totalDuration)
    IN  /\ IsNum(window.start)
        /\ IsNum(window.end)
        /\ TimingValid(window.start.v, window.end.v, totalDuration)

\* the asset of a definition is catalogued under its category or the plural
AssetFound(meta) ==
    \E e \in ScannedMetaVideos :
        /\ e.name = meta.name
        /\ e.category \in {meta.type, meta.type \o << "s" >>}

RECURSIVE IndicesWhere(_, _, _)
IndicesWhere(defs, i, total) ==
    IF i > Len(defs) THEN << >>
    ELSE (IF defs[i].include /\ AssetFound(defs[i]) /\ ValidTiming(defs[i], total)
          THEN << i >> ELSE << >>) \o IndicesWhere(defs, i + 1, total)

\* C23: processMetaVideoDefinitions returns, in input order, exactly the
\* definitions that are included, whose asset is found and whose timing is
\* valid; the others are skipped.
C23_ReturnsExactlyTheValidDefinitions ==
    pc \in {"overlays", "done"} =>
        [i \in 1..Len(resolution.processedMetas) |->
            resolution.processedMetas[i].originalDefinition]
          = IndicesWhere(resolution.definitions, 1, resolution.totalDuration)

\* C27: for a definition whose clip gives neither end nor duration the clip
\* end stays unresolved with start defaulting to 0, and the command extracts
\* the source from the clip start to the measured end of the source asset,
\* never a span of zero or undefined length.
C27_OpenClipRunsToEndOfSource ==
    \A i \in 1..Len(metaCommand.extractions) :
        LET processed == resolution.processedMetas[i]
            definition == resolution.definitions[processed.originalDefinition]
            extraction == metaCommand.extractions[i]
        IN  (definition.clip.end = Undef /\ definition.clip.duration = Undef) =>
                /\ processed.clip.end = Undef
                /\ processed.clip.start
                      = (IF definition.clip.start = Undef THEN Num(0) ELSE definition.clip.start)
                /\ extraction.clipFrom = processed.clip.start
                /\ extraction.clipTo = Num(metaCommand.sourceLength)
                /\ JsGt(extraction.clipTo, extraction.clipFrom)

\* C29: when the clipped meta video is longer than its window, an outro is
\* trimmed from its beginning (the last window-length seconds are kept) and
\* a meta video of another category from its end (the first ones are kept).
C29_OutroKeepsItsEnd ==
    \A i \in 1..Len(metaCommand.extractions) :
        LET processed == resolution.processedMetas[i]
            extraction == metaCommand.extractions[i]
            window == processed.timing.duration
            clipped == processed.clip.duration
        IN  (IsNum(clipped) /\ IsNum(window) /\ clipped.v > window.v) =>
                IF processed.category = << "o", "u", "t", "r", "o", "s" >>
                THEN /\ extraction.trim = "beginning"
                     /\ extraction.trimFrom = Num(clipped.v - window.v)
                     /\ extraction.trimTo = clipped
                ELSE /\ extraction.trim = "end"
                     /\ extraction.trimFrom = Num(0)
                     /\ extraction.trimTo = window

-----------------------------------------------------------------------------
(* The waits of the polling *)

\* C26: in waitForCompletion every poll that finds the generation not yet
\* finished (any status that is not terminal) is followed by a wait of
\* min(2000 + 1000 * attempt, 10000) ms before the next poll.
C26_PendingPollIsFollowedByBackoff ==
    \A i \in 1..Len(poll.history) :
        poll.history[i] \notin {"COMPLETED", "COMPLETED, download throws", "FAILED",
                                "request throws"}
            => /\ poll.waits[i] >= 2000
               /\ poll.waits[i] <= 10000
               /\ poll.waits[i] = IF i < 9 THEN 2000 + 1000 * (i - 1) ELSE 10000

-----------------------------------------------------------------------------
(* Runs of generateVideo on a script of one segment that places meta       *)
(* videos several times                                                    *)

InitRepeat ==
    /\ pc = "apply"
    /\ input \in {ChainedScript(<< item >>) : item \in SchedItems}
    /\ segments = parseSegmentation(input)
    /\ parseError = "none"
    /\ validation = NoValidation
    /\ metaVideos \in [1..MaxRepeats -> SchedPlacements(TotalDuration(parseSegmentation(input)))]
    /\ timeline = << >>
    /\ metaIndex = 0
    /\ now = 0
    /\ lastStep = NoStep
    /\ ProcessIdle
    /\ ComponentsIdle

SpecRepeat == InitRepeat /\ [][NextSchedule]_vars

\* what generateBatch returns
BatchReport ==
    [ successful |-> results,
      errors |-> errors,
      total |-> Len(syncSegments(timeline)),
      successCount |-> Len(results),
      errorCount |-> Len(errors) ]

\* what processCutawaySegments returns
CutawayReport == [successful |-> cutaway.successful, errors |-> cutaway.errors]

\* how often a segment id appears across the two lists of a report
Occurrences(id, report) ==
    Cardinality({i \in 1..Len(report.successful) : report.successful[i].segmentId = id})
    + Cardinality({i \in 1..Len(report.errors) : report.errors[i].segmentId = id})

\* C28: for every run of generateBatch and of processCutawaySegments each
\* input segment's id appears exactly once across successful and errors, the
\* two lists together are as long as the input, and total, successCount and
\* errorCount agree with the lists.
C28_EverySegmentReportedOnce ==
    /\ (pc \in {"cutaways", "processed", "concatenated"} /\ generation # << >>) =>
          /\ \A k \in 1..Len(syncSegments(timeline)) :
                Occurrences(syncSegments(timeline)[k].id, BatchReport) = 1
          /\ Len(BatchReport.successful) + Len(BatchReport.errors)
                = Len(syncSegments(timeline))
          /\ BatchReport.total = Len(syncSegments(timeline))
          /\ BatchReport.successCount = Len(BatchReport.successful)
          /\ BatchReport.errorCount = Len(BatchReport.errors)
    /\ pc \in {"processed", "concatenated"} =>
          /\ \A k \in 1..Len(noSyncSegments(timeline)) :
                Occurrences(noSyncSegments(timeline)[k].id, CutawayReport) = 1
          /\ Len(CutawayReport.successful) + Len(CutawayReport.errors)
                = Len(noSyncSegments(timeline))

-----------------------------------------------------------------------------

Init == InitParse \/ InitCompose \/ InitSchedule \/ InitCanon \/ InitMatch \/ InitTiming \/ InitPoll \/ InitStaging
        \/ InitMeta \/ InitRepeat
Next == NextParse \/ NextCompose \/ NextProcess \/ NextCanon \/ NextMatch \/ NextTiming \/ NextPoll \/ NextStaging
        \/ NextMeta
Spec == Init /\ [][Next]_vars

====
